---- MODULE Spec2Model ----
(***************************************************************************)
(* Model of image_generation_backend/main.py: the Flask gateway that       *)
(* validates an image-generation request, posts it to the Together AI      *)
(* endpoint and reshapes the reply.                                        *)
(*                                                                         *)
(* Encoding of Python values:                                              *)
(*  - a JSON object read by the code (the request body, an entry of the    *)
(*    upstream data array, the upstream JSON body) is a record whose       *)
(*    fields are option sets: {} when the key is absent, {v} when the key  *)
(*    is present with value v; `k in d` is d[k] # {}, d.get(k, x) is Get;  *)
(*  - a dict built by the code (the payload, a response body, an image     *)
(*    result) is a record holding exactly the keys the code sets;          *)
(*  - an f-string is the sequence of its literal and interpolated parts;   *)
(*  - guidance_scale, a float, is carried in tenths (7.5 is 75);           *)
(*  - datetime.now() in the success body is left out: nothing reads it.    *)
(*                                                                         *)
(* Inputs are JSON null or a JSON object whose prompt and negative_prompt  *)
(* are strings and whose width, height, steps, n, seed are integers; the   *)
(* upstream's 200 body is an object whose data, when present, is a list of *)
(* objects. With these inputs the only exception raised outside            *)
(* requests.post is the AttributeError of line 203 on a null body.         *)
(***************************************************************************)
EXTENDS Integers, Sequences, FiniteSets, TLC

\* TOGETHER_API_KEY  the module global of line 15 that line 47 tests ("" when unset)
\* pc                "idle" before a route runs, "awaiting" while the core is blocked
\*                   in requests.post (line 117), "done" once the route has returned
\* request           the route called and what request.get_json() gave it (187, 202)
\* locals            prompt, model, width, height, steps, n of the core (54-62)
\* sent              the payloads posted upstream for the current request (117-122)
\* reply             what requests.post returned or raised (117, 177, 179)
\* response          the (body, status) the route returns
\* translated        the core went on to read the reply's JSON (131-175)
VARIABLES TOGETHER_API_KEY, pc, request, locals, sent, reply, response, translated

vars == <<TOGETHER_API_KEY, pc, request, locals, sent, reply, response, translated>>

\* ------------------------------------------------------------------------
\* Module-level configuration (main.py 15-25)

\* the non-empty literal of line 15, not copied here
API_KEY == "key-of-line-15"

AVAILABLE_MODELS ==
    << "black-forest-labs/FLUX.1-schnell-Free",
       "black-forest-labs/FLUX.1-dev",
       "stabilityai/stable-diffusion-xl-base-1.0",
       "stabilityai/stable-diffusion-2-1",
       "runwayml/stable-diffusion-v1-5" >>

DEFAULT_WIDTH == 1024
DEFAULT_HEIGHT == 1024
DEFAULT_STEPS == 12
DEFAULT_N == 1
MIN_DIMENSION == 256
MAX_DIMENSION == 2048
MIN_STEPS == 1
MAX_STEPS == 12
DEFAULT_NEGATIVE_PROMPT ==
    "blurry, low quality, distorted, pixelated, artifacts, bad anatomy"
DEFAULT_GUIDANCE_SCALE == 75

\* ------------------------------------------------------------------------
\* Bounds of the model

\* longest upstream data array
MaxData == 3

\* ------------------------------------------------------------------------
\* Inputs

Opt(S) == {{}} \cup {{v} : v \in S}

PromptValues == {"", "a cat"}
ModelValues == {AVAILABLE_MODELS[2], "invalid-model-name"}
DimensionValues == {255, 256, 2048, 2049}
StepsValues == {0, 1, 12, 13}
NValues == {4}
NegativePromptValues == {"blurry, low quality, distorted"}
SeedValues == {42}
GuidanceValues == {30}

\* the JSON objects a client posts
Bodies ==
    [ prompt : Opt(PromptValues),
      model : Opt(ModelValues),
      width : Opt(DimensionValues),
      height : Opt(DimensionValues),
      steps : Opt(StepsValues),
      n : Opt(NValues),
      negative_prompt : Opt(NegativePromptValues),
      seed : Opt(SeedValues),
      guidance_scale : Opt(GuidanceValues) ]

EmptyBody == [ prompt |-> {}, model |-> {}, width |-> {}, height |-> {},
               steps |-> {}, n |-> {}, negative_prompt |-> {}, seed |-> {},
               guidance_scale |-> {} ]

\* what request.get_json() returns: None for the JSON text null, else the object
Requests(endpoint) ==
    { [endpoint |-> endpoint, json |-> "object", data |-> d] : d \in Bodies }
    \cup { [endpoint |-> endpoint, json |-> "null", data |-> EmptyBody] }

\* entries of the upstream data array
ImageEntries == [ url : Opt({"x"}), b64_json : Opt({"y"}) ]

RECURSIVE SeqsUpTo(_, _)
SeqsUpTo(S, n) ==
    IF n = 0 THEN {<<>>}
    ELSE LET shorter == SeqsUpTo(S, n - 1)
         IN shorter \cup { Append(s, e) : s \in {t \in shorter : Len(t) = n - 1}, e \in S }

\* JSON bodies of an upstream 200 reply
UpstreamBodies == [ data : Opt(SeqsUpTo(ImageEntries, MaxData)) ]

UpstreamErrorStatuses == {201, 400, 503}
UpstreamTexts == {"", "rate limited"}

NoReply == [kind |-> "none", status_code |-> 0, text |-> "", body |-> [data |-> {}]]
NoResponse == [status |-> 0]

\* ------------------------------------------------------------------------
\* Python helpers

Has(d, k) == d[k] # {}
Value(d, k) == CHOOSE v \in d[k] : TRUE
Get(d, k, default) == IF Has(d, k) THEN Value(d, k) ELSE default

\* `not data` for a parsed body: None and the empty object are both falsy
BodyFalsy(req) ==
    \/ req.json = "null"
    \/ \A k \in DOMAIN req.data : ~Has(req.data, k)

\* `not prompt` for data.get('prompt'): None and "" are falsy
PromptFalsy(d) == ~Has(d, "prompt") \/ Value(d, "prompt") = ""

InModels(m) == \E i \in 1..Len(AVAILABLE_MODELS) : AVAILABLE_MODELS[i] = m

\* ------------------------------------------------------------------------
\* _generate_image_core, up to requests.post (main.py 44-122)

Reject(body, status) == [ok |-> FALSE, response |-> [status |-> status, body |-> body]]

\* line 47
KeyMissing(key) == key = ""

\* mutation: the model is not validated
ModelInvalid_Unchecked(model) == FALSE

\* line 65
ModelInvalid(model) == ~InModels(model)

\* mutation: the bounds themselves are refused
DimensionsInvalid_Exclusive(width, height) ==
    width <= MIN_DIMENSION \/ width >= MAX_DIMENSION
        \/ height <= MIN_DIMENSION \/ height >= MAX_DIMENSION

\* line 71
DimensionsInvalid(width, height) ==
    width < MIN_DIMENSION \/ width > MAX_DIMENSION
        \/ height < MIN_DIMENSION \/ height > MAX_DIMENSION

\* mutation: the ceiling on steps is forgotten
StepsInvalid_NoCeiling(steps) == steps < MIN_STEPS

\* line 77
StepsInvalid(steps) == steps < MIN_STEPS \/ steps > MAX_STEPS

\* lines 88-111
BuildPayload(d, prompt, model, width, height, steps, n) ==
    LET base == [ model |-> model, prompt |-> prompt, width |-> width,
                  height |-> height, steps |-> steps, n |-> n,
                  negative_prompt |-> Get(d, "negative_prompt", DEFAULT_NEGATIVE_PROMPT),
                  guidance_scale |-> Get(d, "guidance_scale", DEFAULT_GUIDANCE_SCALE) ]
    IN IF Has(d, "seed") THEN base @@ ("seed" :> Value(d, "seed")) ELSE base

generate_image_core_request(key, d) ==
    IF KeyMissing(key)
    THEN Reject([ error |-> <<"Together AI API key not configured">>,
                  message |-> "Please set TOGETHER_API_KEY environment variable" ], 500)
    ELSE IF PromptFalsy(d)
    THEN Reject([error |-> <<"Prompt is required">>], 400)
    ELSE LET prompt == Value(d, "prompt")
             model == Get(d, "model", AVAILABLE_MODELS[1])
             width == Get(d, "width", DEFAULT_WIDTH)
             height == Get(d, "height", DEFAULT_HEIGHT)
             steps == Get(d, "steps", DEFAULT_STEPS)
             n == Get(d, "n", DEFAULT_N)
         IN IF ModelInvalid(model)
            THEN Reject([error |-> <<"Invalid model. Available models: ", AVAILABLE_MODELS>>], 400)
            ELSE IF DimensionsInvalid(width, height)
            THEN Reject([error |-> <<"Width and height must be between 256 and 2048 pixels">>], 400)
            ELSE IF StepsInvalid(steps)
            THEN Reject([error |-> <<"Steps must be between 1 and 12 for Together AI models">>], 400)
            ELSE [ ok |-> TRUE,
                   locals |-> [ prompt |-> prompt, model |-> model, width |-> width,
                                height |-> height, steps |-> steps, n |-> n ],
                   payload |-> BuildPayload(d, prompt, model, width, height, steps, n) ]

\* ------------------------------------------------------------------------
\* _generate_image_core, from the return of requests.post (main.py 124-181)

\* mutation: b64_json is looked at before url
ImageResult_Base64First(image_data, i) ==
    IF Has(image_data, "b64_json")
    THEN << [b64_json |-> Value(image_data, "b64_json"), index |-> i] >>
    ELSE IF Has(image_data, "url")
    THEN << [url |-> Value(image_data, "url"), index |-> i] >>
    ELSE << >>

\* lines 139-154: the result appended for entry image_data at enumerate index i,
\* as a sequence of zero or one results
ImageResult(image_data, i) ==
    IF Has(image_data, "url")
    THEN << [url |-> Value(image_data, "url"), index |-> i] >>
    ELSE IF Has(image_data, "b64_json")
    THEN << [b64_json |-> Value(image_data, "b64_json"), index |-> i] >>
    ELSE << >>

\* lines 135-154: the loop over enumerate(result['data']), entries 1..k done
RECURSIVE ProcessImages(_, _)
ProcessImages(data, k) ==
    IF k = 0 THEN << >>
    ELSE ProcessImages(data, k - 1) \o ImageResult(data[k], k - 1)

\* mutation: an array whose entries are all skipped counts as no images
HasImages_AfterFiltering(result) ==
    /\ Has(result, "data")
    /\ ProcessImages(Value(result, "data"), Len(Value(result, "data"))) # << >>

\* line 134
HasImages(result) == Has(result, "data") /\ Len(Value(result, "data")) > 0

\* lines 158-172
SuccessBody(images_data, loc, payload) ==
    [ success |-> TRUE,
      images |-> images_data,
      prompt |-> loc.prompt,
      model |-> loc.model,
      parameters |-> [ width |-> loc.width, height |-> loc.height,
                       steps |-> loc.steps, n |-> loc.n,
                       guidance_scale |-> payload.guidance_scale,
                       negative_prompt |-> payload.negative_prompt ] ]

\* lines 124-129
HttpErrorResponse(status_code, text) ==
    [ status |-> status_code,
      body |-> [ error |-> <<"Together AI API error: ", status_code>>
                            \o (IF text # "" THEN <<" - ", text>> ELSE << >>) ] ]

\* lines 131-175
TranslateResponse(result, loc, payload) ==
    IF HasImages(result)
    THEN [ status |-> 200,
           body |-> SuccessBody(ProcessImages(Value(result, "data"),
                                              Len(Value(result, "data"))), loc, payload) ]
    ELSE [status |-> 500, body |-> [error |-> <<"No images generated">>]]

\* mutation: the RequestException clause comes first and catches the Timeout
ExceptionResponse_GenericFirst(kind) ==
    [status |-> 500, body |-> [error |-> <<"Request failed: ", kind>>]]

\* lines 177-181: the except clauses, tried in order; Timeout is a subclass of
\* RequestException
ExceptionResponse(kind) ==
    IF kind = "timeout"
    THEN [ status |-> 408,
           body |-> [error |-> <<"Request timeout - image generation took too long">>] ]
    ELSE [status |-> 500, body |-> [error |-> <<"Request failed: ", kind>>]]

generate_image_core_reply(rep, loc, payload) ==
    IF rep.kind \in {"timeout", "request_exception"}
    THEN ExceptionResponse(rep.kind)
    ELSE IF rep.status_code # 200
    THEN HttpErrorResponse(rep.status_code, rep.text)
    ELSE TranslateResponse(rep.body, loc, payload)

\* ------------------------------------------------------------------------
\* Routes (main.py 183-223)

\* mutation: another steps default in the simple route
EnhancedData_OtherSteps(prompt) ==
    [ prompt |-> {prompt}, model |-> {AVAILABLE_MODELS[1]}, width |-> {1024},
      height |-> {1024}, steps |-> {10}, n |-> {1}, negative_prompt |-> {},
      seed |-> {}, guidance_scale |-> {} ]

\* lines 209-216
EnhancedData(prompt) ==
    [ prompt |-> {prompt}, model |-> {AVAILABLE_MODELS[1]}, width |-> {1024},
      height |-> {1024}, steps |-> {12}, n |-> {1}, negative_prompt |-> {},
      seed |-> {}, guidance_scale |-> {} ]

\* lines 187-192, up to requests.post
generate_image_request(key, req) ==
    IF BodyFalsy(req)
    THEN Reject([error |-> <<"No JSON data provided">>], 400)
    ELSE generate_image_core_request(key, req.data)

\* lines 202-223, up to requests.post; data.get on None raises AttributeError,
\* which the except clause answers
generate_image_simple_request(key, req) ==
    IF req.json = "null"
    THEN Reject([error |-> <<"'NoneType' object has no attribute 'get'">>], 500)
    ELSE IF PromptFalsy(req.data)
    THEN Reject([error |-> <<"Prompt is required">>], 400)
    ELSE generate_image_core_request(key, EnhancedData(Value(req.data, "prompt")))

\* ------------------------------------------------------------------------
\* State machine: one request at a time, from the route to the response

NoLocals == [prompt |-> "", model |-> "", width |-> 0, height |-> 0, steps |-> 0, n |-> 0]
NoRequest == [endpoint |-> "", json |-> "null", data |-> EmptyBody]

Fresh ==
    /\ pc = "idle"
    /\ request = NoRequest
    /\ locals = NoLocals
    /\ sent = << >>
    /\ reply = NoReply
    /\ response = NoResponse
    /\ translated = FALSE

\* the deployment of the source: the key of line 15
Init == TOGETHER_API_KEY = API_KEY /\ Fresh

\* deployments with and without a configured key (the case lines 47 and 235 test)
InitConfig == TOGETHER_API_KEY \in {"", API_KEY} /\ Fresh

\* the route ran up to its first return or up to requests.post
Handle(req, r) ==
    /\ request' = req
    /\ IF r.ok
       THEN /\ pc' = "awaiting"
            /\ locals' = r.locals
            /\ sent' = Append(sent, r.payload)
            /\ UNCHANGED response
       ELSE /\ pc' = "done"
            /\ response' = r.response
            /\ UNCHANGED <<locals, sent>>
    /\ UNCHANGED <<TOGETHER_API_KEY, reply, translated>>

PostGenerate ==
    /\ pc = "idle"
    /\ \E req \in Requests("/generate") :
        Handle(req, generate_image_request(TOGETHER_API_KEY, req))

PostGenerateSimple ==
    /\ pc = "idle"
    /\ \E req \in Requests("/generate-simple") :
        Handle(req, generate_image_simple_request(TOGETHER_API_KEY, req))

\* requests.post returned or raised; the core runs to its return
Complete(rep) ==
    /\ reply' = rep
    /\ response' = generate_image_core_reply(rep, locals, sent[Len(sent)])
    /\ translated' = (rep.kind = "response" /\ rep.status_code = 200)
    /\ pc' = "done"
    /\ UNCHANGED <<TOGETHER_API_KEY, request, locals, sent>>

UpstreamTimeout ==
    /\ pc = "awaiting"
    /\ Complete([kind |-> "timeout", status_code |-> 0, text |-> "", body |-> [data |-> {}]])

UpstreamRequestException ==
    /\ pc = "awaiting"
    /\ Complete([kind |-> "request_exception", status_code |-> 0, text |-> "",
              body |-> [data |-> {}]])

UpstreamHttpError ==
    /\ pc = "awaiting"
    /\ \E s \in UpstreamErrorStatuses, t \in UpstreamTexts :
        Complete([kind |-> "response", status_code |-> s, text |-> t, body |-> [data |-> {}]])

UpstreamOk ==
    /\ pc = "awaiting"
    /\ \E b \in UpstreamBodies :
        Complete([kind |-> "response", status_code |-> 200, text |-> "json", body |-> b])

\* the response is returned; the next request finds nothing of this one
NextRequest ==
    /\ pc = "done"
    /\ pc' = "idle"
    /\ request' = NoRequest
    /\ locals' = NoLocals
    /\ sent' = << >>
    /\ reply' = NoReply
    /\ response' = NoResponse
    /\ translated' = FALSE
    /\ UNCHANGED TOGETHER_API_KEY

Next ==
    \/ PostGenerate
    \/ PostGenerateSimple
    \/ UpstreamTimeout
    \/ UpstreamRequestException
    \/ UpstreamHttpError
    \/ UpstreamOk
    \/ NextRequest

Spec == Init /\ [][Next]_vars

SpecConfig == InitConfig /\ [][Next]_vars

\* ------------------------------------------------------------------------
\* Vocabulary of the properties

Payload == sent[Len(sent)]
IsObject(req) == req.json = "object"
Rejected == pc = "done" /\ sent = << >>
HasError == pc = "done" /\ "error" \in DOMAIN response.body
ErrorIs(msg) == HasError /\ response.body.error = <<msg>>

Present(req, k) == IsObject(req) /\ req.data[k] # {}
Given(req, k) == CHOOSE v \in req.data[k] : TRUE
PromptMissing(req) ==
    ~IsObject(req) \/ ~Present(req, "prompt") \/ Given(req, "prompt") = ""
Listed(m) == m \in {AVAILABLE_MODELS[i] : i \in DOMAIN AVAILABLE_MODELS}
ModelBad(req) == Present(req, "model") /\ ~Listed(Given(req, "model"))
OutOfRange(v, lo, hi) == v < lo \/ v > hi
DimensionBad(req, k) == Present(req, k) /\ OutOfRange(Given(req, k), 256, 2048)
StepsBad(req) == Present(req, "steps") /\ OutOfRange(Given(req, "steps"), 1, 12)
OnGenerate == request.endpoint = "/generate"
OnSimple == request.endpoint = "/generate-simple"

\* a validation check fails on the request: /generate-simple reads the prompt only
CheckFails(req) ==
    \/ TOGETHER_API_KEY = ""
    \/ PromptMissing(req)
    \/ /\ req.endpoint = "/generate"
       /\ \/ ModelBad(req)
          \/ DimensionBad(req, "width")
          \/ DimensionBad(req, "height")
          \/ StepsBad(req)

FirstFailure(req) ==
    IF TOGETHER_API_KEY = ""
    THEN [status |-> 500, error |-> <<"Together AI API key not configured">>]
    ELSE IF PromptMissing(req)
    THEN [status |-> 400, error |-> <<"Prompt is required">>]
    ELSE IF ModelBad(req)
    THEN [status |-> 400, error |-> <<"Invalid model. Available models: ", AVAILABLE_MODELS>>]
    ELSE IF DimensionBad(req, "width") \/ DimensionBad(req, "height")
    THEN [status |-> 400, error |-> <<"Width and height must be between 256 and 2048 pixels">>]
    ELSE [status |-> 400, error |-> <<"Steps must be between 1 and 12 for Together AI models">>]

FailedChecks(req) ==
    { c \in {"credential", "prompt", "model", "dimensions", "steps"} :
        \/ c = "credential" /\ TOGETHER_API_KEY = ""
        \/ c = "prompt" /\ PromptMissing(req)
        \/ /\ req.endpoint = "/generate"
           /\ \/ c = "model" /\ ModelBad(req)
              \/ c = "dimensions"
                    /\ (DimensionBad(req, "width") \/ DimensionBad(req, "height"))
              \/ c = "steps" /\ StepsBad(req) }

C3_MissingPromptIs400 ==
    (pc # "idle" /\ IsObject(request) /\ PromptMissing(request)) =>
        /\ Rejected
        /\ response.status = 400
        /\ ErrorIs("Prompt is required")

\* ------------------------------------------------------------------------
\* C4: on /generate with a non-empty prompt, a model outside AVAILABLE_MODELS is
\* answered 400 with an error that lists every available model; an omitted model
\* becomes the first entry of the list and is never the reason of a rejection.
ModelError == <<"Invalid model. Available models: ", AVAILABLE_MODELS>>

Effective(req, k, default) == IF Present(req, k) THEN Given(req, k) ELSE default

Replied200 == pc = "done" /\ reply.kind = "response" /\ reply.status_code = 200
ReplyHasData == reply.body.data # {}
ReplyData == CHOOSE d \in reply.body.data : TRUE
Carries(e, k) == e[k] # {}
Carried(e, k) == CHOOSE v \in e[k] : TRUE

\* ------------------------------------------------------------------------
\* C6: for a non-empty upstream data array the images are, in upstream order,
\* one result per entry carrying url or b64_json and none for an entry carrying
\* neither; a result's index is the zero-based position of its entry in the
\* upstream array; an entry carrying both gives the url result.
C6_ImagesKeepOrderAndIndex ==
    (Replied200 /\ ReplyHasData /\ Len(ReplyData) > 0) =>
        LET imgs == response.body.images
            kept == { i \in 1..Len(ReplyData) :
                        Carries(ReplyData[i], "url") \/ Carries(ReplyData[i], "b64_json") }
        IN /\ response.status = 200
           /\ Len(imgs) = Cardinality(kept)
           /\ \A j \in 1..Len(imgs) : imgs[j].index + 1 \in kept
           /\ \A j \in 1..(Len(imgs) - 1) : imgs[j].index < imgs[j + 1].index
           /\ \A j \in 1..Len(imgs) :
                 LET e == ReplyData[imgs[j].index + 1]
                 IN IF Carries(e, "url")
                    THEN imgs[j] = [url |-> Carried(e, "url"), index |-> imgs[j].index]
                    ELSE imgs[j] = [b64_json |-> Carried(e, "b64_json"),
                                    index |-> imgs[j].index]

C6_Witness ==
    /\ Replied200
    /\ ReplyHasData
    /\ ReplyData = << [url |-> {"x"}, b64_json |-> {}],
                      [url |-> {}, b64_json |-> {"y"}],
                      [url |-> {}, b64_json |-> {}] >>
    /\ response.body.images = << [url |-> "x", index |-> 0],
                                 [b64_json |-> "y", index |-> 1] >>

\* ------------------------------------------------------------------------
\* C7: on an upstream 200, a body without a data array or with an empty one is
\* answered 500 'No images generated'; a non-empty array whose entries all lack
\* url and b64_json is answered 200 with success true and no images; the 500
\* no-images answer is given in the first case only.
C7_NoImagesOnlyWhenArrayEmpty ==
    /\ Replied200 =>
          /\ (~ReplyHasData \/ Len(ReplyData) = 0) =>
                response.status = 500 /\ ErrorIs("No images generated")
          /\ (/\ ReplyHasData
              /\ Len(ReplyData) > 0
              /\ \A i \in 1..Len(ReplyData) :
                    ~Carries(ReplyData[i], "url") /\ ~Carries(ReplyData[i], "b64_json")) =>
                /\ response.status = 200
                /\ response.body.success = TRUE
                /\ response.body.images = << >>
    /\ ErrorIs("No images generated") =>
          /\ Replied200
          /\ ~ReplyHasData \/ Len(ReplyData) = 0

C7_Witness ==
    /\ Replied200
    /\ ReplyHasData
    /\ Len(ReplyData) = 2
    /\ response.status = 200
    /\ response.body.images = << >>

\* ------------------------------------------------------------------------
\* C8: a validated request is sent upstream once and never again; a timeout is
\* answered 408, an upstream status other than 200 with that status and an
\* error ending in the upstream's body text, another transport exception 500;
\* none of these failures is answered with a 200 success.
C8_SingleCallFinalOutcome ==
    /\ Len(sent) <= 1
    /\ pc = "awaiting" => Len(sent) = 1
    /\ (pc = "done" /\ reply # NoReply) =>
          /\ Len(sent) = 1
          /\ reply.kind = "timeout" => response.status = 408 /\ HasError
          /\ reply.kind = "request_exception" => response.status = 500 /\ HasError
          /\ (reply.kind = "response" /\ reply.status_code # 200) =>
                /\ response.status = reply.status_code
                /\ HasError
                /\ response.body.error[2] = reply.status_code
                /\ reply.text # "" =>
                      response.body.error[Len(response.body.error)] = reply.text
          /\ (reply.kind # "response" \/ reply.status_code # 200) =>
                /\ response.status # 200
                /\ "success" \notin DOMAIN response.body

C8_Witness ==
    /\ pc = "done"
    /\ reply.kind = "timeout"
    /\ response.status = 408
    /\ Len(sent) = 1

\* ------------------------------------------------------------------------
\* C9: /generate-simple with {prompt: p}, p non-empty, sends the payload that
\* /generate sends for {prompt: p, model: the first model, width: 1024, height:
\* 1024, steps: 12, n: 1}, and answers the same upstream reply with the same
\* status and the same body; a reply with images is answered 200.
FullRequest(p) ==
    [ endpoint |-> "/generate", json |-> "object",
      data |-> [ prompt |-> {p}, model |-> {AVAILABLE_MODELS[1]}, width |-> {1024},
                 height |-> {1024}, steps |-> {12}, n |-> {1}, negative_prompt |-> {},
                 seed |-> {}, guidance_scale |-> {} ] ]

OnlyPrompt(req) ==
    /\ IsObject(req)
    /\ \A k \in DOMAIN req.data : Present(req, k) <=> k = "prompt"
    /\ Given(req, "prompt") # ""

C9_SimpleEqualsGenerateWithDefaults ==
    (pc # "idle" /\ OnSimple /\ OnlyPrompt(request)) =>
        LET full == generate_image_request(TOGETHER_API_KEY,
                                           FullRequest(Given(request, "prompt")))
        IN /\ full.ok
           /\ sent = <<full.payload>>
           /\ Payload.width = 1024 /\ Payload.height = 1024
           /\ Payload.steps = 12 /\ Payload.n = 1
           /\ Payload.model = AVAILABLE_MODELS[1]
           /\ Payload.negative_prompt = DEFAULT_NEGATIVE_PROMPT
           /\ Payload.guidance_scale = 75
           /\ pc = "done" =>
                 /\ response = generate_image_core_reply(reply, full.locals, full.payload)
                 /\ (Replied200 /\ ReplyHasData /\ Len(ReplyData) > 0) =>
                       response.status = 200

C9_Witness ==
    /\ pc = "done"
    /\ OnSimple
    /\ OnlyPrompt(request)
    /\ response.status = 200
    /\ Len(response.body.images) = 2

\* ------------------------------------------------------------------------
\* C10: a 200 response echoes every field of the payload sent upstream (model,
\* prompt, width, height, steps, n, negative_prompt, guidance_scale, and seed
\* when the caller gave one) with the value that was sent.
EchoedKeys(body) == {"prompt", "model"} \cup DOMAIN body.parameters
Echoed(body, k) == IF k \in {"prompt", "model"} THEN body[k] ELSE body.parameters[k]

C10_ResponseEchoesPayload ==
    (pc = "done" /\ response.status = 200) =>
        \A k \in DOMAIN Payload :
            k \in EchoedKeys(response.body) /\ Echoed(response.body, k) = Payload[k]

====
